---- MODULE Spec2Model ----
(***************************************************************************)
(* A model of mht_unpack.py: the part index (Mapped.__init__), root        *)
(* selection (__main__), the recursive renderer (Mapped.render) with its   *)
(* two embedding strategies (InlineData / DataDirectory), PartHelper and   *)
(* compress_data.                                                          *)
(*                                                                         *)
(* Python's call stack is the variable `stack`: one frame per active call  *)
(* of Mapped.render; a frame below the top is suspended inside the         *)
(* render_data call it made for tag number `i` of its document.            *)
(***************************************************************************)
EXTENDS Integers, Sequences, FiniteSets, TLC

\* ------------------------------------------------------------------ bounds
\* Parts of a message of the reference-graph family (besides the container).
MaxParts == 2
\* Reference-bearing tags in one HTML document.
MaxRefs == 2
\* Input files on one command line.
MaxFiles == 2
\* Length of a byte buffer handed to compress_data.
MaxLen == 2
\* Depth of nested render calls at which Python raises RecursionError.
MaxDepth == 6
\* Processes running at the same time in one directory.
MaxRuns == 2

\* ------------------------------------------------------------- MIME types
\* A MIME type string "type;param;param" is kept as its ';'-separated
\* pieces, so that split(';')[0] and "{0};charset=utf8".format are operations.
M(t) == [type |-> t, params |-> <<>>]

\* "{0};charset=utf8".format(content_type)
WithCharset(m) == [type |-> m.type, params |-> Append(m.params, "charset=utf8")]

\* `not mime_type`: the empty string
IsEmptyMime(m) == m.type = "" /\ m.params = <<>>

suspect_mime_type(m) ==
    IsEmptyMime(m) \/ m \in {M("text/plain"), M("application/octet-stream")}

\* ------------------------------------------------------------ transcoders
\* The optional modules of the try/import blocks: TRUE when importable.
CapNames == {"magic_obj", "css_compress", "js_compress", "Image"}

NoCaps == [c \in CapNames |-> FALSE]

AllCaps == [c \in CapNames |-> TRUE]

\* The registry: the base MIME type -> the compressor's name.
minify ==
    [t \in {"text/javascript", "application/javascript", "application/x-javascript"}
        |-> "js_compress"]
    @@ [t \in {"text/css", "application/css"} |-> "css_compress"]
    @@ [t \in {"image/jpeg", "image/png", "image/gif"} |-> "Image"]

\* minify.get(mime_type.split(';')[0], None), "None" when the type is not
\* registered or when the module behind the compressor is not installed.
Compressor(installed, mime) ==
    IF mime.type \in DOMAIN minify /\ installed[minify[mime.type]]
    THEN minify[mime.type]
    ELSE "None"

\* What a compressor may hand back for `data`: the external minifiers and PIL
\* decide the bytes, so every length around len(data) is possible.  js and css
\* return bytes; jpeg_compress returns (bytes, mime), or `buf` itself when PIL
\* cannot open the image; any of them may raise.
TranscodedLens(data) == {l \in {data.len - 1, data.len, data.len + 1} : l >= 0}

Transcoded(data, l) == [body |-> <<"transcoded", data.body>>, len |-> l]

CompressorOutputs(name, data) ==
    IF name = "Image"
    THEN {[kind |-> "tuple", data |-> Transcoded(data, l), mime |-> M(t)] :
              l \in TranscodedLens(data), t \in {"image/png", "image/jpeg"}}
         \cup {[kind |-> "bytes", data |-> data, mime |-> M("")]}
         \cup {[kind |-> "raise", data |-> data, mime |-> M("")]}
    ELSE {[kind |-> "bytes", data |-> Transcoded(data, l), mime |-> M("")] :
              l \in TranscodedLens(data)}
         \cup {[kind |-> "raise", data |-> data, mime |-> M("")]}

\* The outcomes of the compressor call compress_data makes, if it makes one.
NoOutput == [kind |-> "none", data |-> [body |-> <<>>, len |-> 0], mime |-> M("")]

Outputs(installed, data, mime) ==
    IF IsEmptyMime(mime) \/ Compressor(installed, mime) = "None"
    THEN {NoOutput}
    ELSE CompressorOutputs(Compressor(installed, mime), data)

\* A mutant of compress_data: adopts the transcoded result when it is not
\* longer (<=) instead of strictly shorter.
compress_data_le(installed, data, mime, output) ==
    IF IsEmptyMime(mime) THEN <<data, M("")>>
    ELSE IF Compressor(installed, mime) = "None" THEN <<data, mime>>
    ELSE LET new_data == output.data
             new_mime == IF output.kind = "tuple" THEN output.mime ELSE mime
         IN  IF new_data.len <= data.len THEN <<new_data, new_mime>>
             ELSE <<data, mime>>

\* compress_data(data, mime_type), `output` being what compressor(data)
\* returned (the raising outcome is the caller's to handle: it propagates).
compress_data(installed, data, mime, output) ==
    IF IsEmptyMime(mime) THEN <<data, M("")>>
    ELSE IF Compressor(installed, mime) = "None" THEN <<data, mime>>
    ELSE LET new_data == output.data
             new_mime == IF output.kind = "tuple" THEN output.mime ELSE mime
         IN  IF new_data.len < data.len THEN <<new_data, new_mime>>
             ELSE <<data, mime>>

\* ------------------------------------------------------------------- URIs
\* A URI is its directory part ("" for a relative reference) and its last
\* segment; the empty string is EmptyURI.
URI(d, n) == [dir |-> d, name |-> n]

EmptyURI == URI("", "")

\* urllib.parse.urljoin(base, url)
urljoin(base, url) ==
    IF base = EmptyURI THEN url
    ELSE IF url = EmptyURI THEN base
    ELSE IF url.dir # "" THEN url
    ELSE URI(base.dir, url.name)

\* An attribute value: urlsplit(href).scheme is "cid" or not; for a cid: URI
\* `name` is the path, otherwise (dir, name) is the URI to join.
Href(s, d, n) == [scheme |-> s, dir |-> d, name |-> n]

EmptyHref == Href("", "", "")

\* A Content-ID / start value: a name, with or without its angle brackets.
Cid(n, b) == [name |-> n, br |-> b]

\* cid.strip("<>")
StripBrackets(c) == Cid(c.name, FALSE)

\* ------------------------------------------------------------ the message
\* A header that may be absent is <<>> or <<value>>.
\* A payload is the decoded bytes of a part: `id` and `tags` are the bytes
\* (tags: what BeautifulSoup finds when the bytes are parsed as HTML), `sniff`
\* is what magic_obj.id_buffer answers for them, `len` their length.
\* `text` says the payload is a str, not bytes: get_payload(decode=True) never
\* makes one.
Payload(i, tags, sniff) ==
    [id |-> i, tags |-> tags, sniff |-> sniff, len |-> MaxLen, text |-> FALSE]

\* get_payload(decode=True) of a multipart container: None
NonePayload == [id |-> -1, tags |-> <<>>, sniff |-> M(""), len |-> 0, text |-> FALSE]

HtmlPayload(tags) == Payload(0, tags, M("text/html"))

BinPayload(k) == Payload(k, <<>>, IF k = 1 THEN M("image/jpeg") ELSE M("text/plain"))

Tag(n, a, h, t) == [name |-> n, attr |-> a, href |-> h, type |-> t]

CidRefTag(target) == Tag("img", "src", Href("cid", "", target), "")

Part(mp, ct, pl, cid, loc, cbase, start) ==
    [multipart |-> mp, ctype |-> ct, payload |-> pl, cid |-> cid, loc |-> loc,
     cbase |-> cbase, start |-> start]

Container(cid, start) ==
    Part(TRUE, M("multipart/related"), NonePayload, cid, <<>>, EmptyURI, start)

HtmlPart(cid, tags) ==
    Part(FALSE, M("text/html"), HtmlPayload(tags), cid, <<>>, EmptyURI, <<>>)

\* The reference-bearing attributes of each tag (Mapped.refs).
refs ==
    [t \in {"a", "area", "link"} |-> {"href"}]
    @@ [t \in {"applet"} |-> {"codebase"}]
    @@ [t \in {"audio", "embed", "script", "source", "track"} |-> {"src"}]
    @@ [t \in {"blockquote", "del", "ins", "q"} |-> {"cite"}]
    @@ [t \in {"body"} |-> {"background"}]
    @@ [t \in {"button"} |-> {"formaction"}]
    @@ [t \in {"command"} |-> {"icon"}]
    @@ [t \in {"form"} |-> {"action"}]
    @@ [t \in {"frame", "iframe"} |-> {"longdesc", "src"}]
    @@ [t \in {"head"} |-> {"profile"}]
    @@ [t \in {"html"} |-> {"manifest"}]
    @@ [t \in {"img"} |-> {"longdesc", "src", "usemap"}]
    @@ [t \in {"input"} |-> {"formaction", "src", "usemap"}]
    @@ [t \in {"object"} |-> {"classid", "codebase", "data", "usemap"}]
    @@ [t \in {"video"} |-> {"poster", "src"}]

\* self.refs.get(tag.name, ())
RefsOf(name) == IF name \in DOMAIN refs THEN refs[name] ELSE {}

\* ------------------------------------------------------------- PartHelper
\* The static part of common_types.
CommonTypes ==
    (M("text/html") :> ".html") @@ (M("text/plain") :> ".txt")
    @@ (M("text/javascript") :> ".js") @@ (M("application/javascript") :> ".js")
    @@ (M("application/x-javascript") :> ".js") @@ (M("text/css") :> ".css")
    @@ (M("application/css") :> ".css") @@ (M("application/octet-stream") :> ".data")
    @@ (M("image/jpeg") :> ".jpg")

\* mime_type.lower(): the types of the model are lower case but for these.
Lower(m) ==
    [type |-> CASE m.type = "TEXT/CSS" -> "text/css"
                [] m.type = "Image/PNG" -> "image/png"
                [] OTHER -> m.type,
     params |-> m.params]

\* mimetypes.guess_extension(mime_type) or "": the OS table.
GuessExtension(m) ==
    CASE m = M("image/png") -> ".png"
      [] m = M("image/gif") -> ".gif"
      [] OTHER -> ""

\* A mutant of find_extension: what the guesser answered is not stored.
find_extension_uncached(table, mime) ==
    LET key == Lower(mime)
    IN  IF key \in DOMAIN table
        THEN [ext |-> table[key], table |-> table, guessed |-> FALSE]
        ELSE [ext |-> GuessExtension(key), table |-> table, guessed |-> TRUE]

\* find_extension(mime_type): the extension, common_types afterwards
\* (`table` is common_types before the call), and whether
\* mt.guess_extension was called.
find_extension(table, mime) ==
    LET key == Lower(mime)
    IN  IF key \in DOMAIN table
        THEN [ext |-> table[key], table |-> table, guessed |-> FALSE]
        ELSE [ext |-> GuessExtension(key),
              table |-> (key :> GuessExtension(key)) @@ table,
              guessed |-> TRUE]

\* The calls of mt.guess_extension so far (key -> how many), after
\* find_extension(mime) with `table` as common_types.
Logged(log, table, mime) ==
    LET key == Lower(mime)
    IN  IF find_extension(table, mime).guessed
        THEN (key :> (IF key \in DOMAIN log THEN log[key] ELSE 0) + 1) @@ log
        ELSE log

\* hashlib.sha256(payload).digest(), urlsafe-base64 encoded: both injective
\* (sha256 taken as collision free).
Digest(payload) == <<"b64", <<"sha256", payload.id, payload.tags>>>>

\* PartHelper.__init__ raises: a multipart container has payload None, and
\* hashlib.sha256(None) is a TypeError.
PartHelperRaises(part) == part.multipart

\* A mutant of ResolveType: a type that is still suspect at the end is
\* replaced by the empty string.
ResolveTypeOrEmpty(installed, part, recommended_mime_type) ==
    LET mime == part.ctype
        sniffed == IF suspect_mime_type(mime) /\ installed["magic_obj"]
                   THEN part.payload.sniff ELSE mime
    IN  IF suspect_mime_type(sniffed) /\ ~IsEmptyMime(recommended_mime_type)
        THEN recommended_mime_type
        ELSE IF suspect_mime_type(sniffed) THEN M("")
        ELSE sniffed

\* The content type PartHelper settles on (lines 176-184).
ResolveType(installed, part, recommended_mime_type) ==
    LET mime == part.ctype
        sniffed == IF suspect_mime_type(mime) /\ installed["magic_obj"]
                   THEN part.payload.sniff ELSE mime
    IN  IF suspect_mime_type(sniffed) /\ ~IsEmptyMime(recommended_mime_type)
        THEN recommended_mime_type
        ELSE sniffed

\* PartHelper(part, recommended_mime_type); `p` is the part's position in the
\* walk of `mess` (the identity of the part object).
PartHelper(installed, table, mess, p, recommended_mime_type) ==
    LET mime == ResolveType(installed, mess[p], recommended_mime_type)
    IN  [part |-> p,
         content_type |-> mime,
         payload |-> mess[p].payload,
         extension |-> find_extension(table, mime).ext,
         digest |-> Digest(mess[p].payload)]

\* ------------------------------------------------------- Mapped.__init__
EmptyMap == [k \in {} |-> 0]

\* A mutant of Walked: an entry made by an earlier part is kept.
RECURSIVE WalkedFirstWins(_, _)
WalkedFirstWins(mess, k) ==
    IF k = 0 THEN [by_loc |-> EmptyMap, by_id |-> EmptyMap, starts |-> {}]
    ELSE LET prev == WalkedFirstWins(mess, k - 1)
             part == mess[k]
             base == part.cbase
         IN  [starts |-> prev.starts \cup {part.start[j] : j \in DOMAIN part.start},
              by_loc |-> IF part.loc # <<>>
                         THEN prev.by_loc @@ (urljoin(base, part.loc[1]) :> k)
                         ELSE prev.by_loc,
              by_id |-> IF part.cid # <<>>
                        THEN prev.by_id @@ (part.cid[1] :> k)
                             @@ (StripBrackets(part.cid[1]) :> k)
                        ELSE prev.by_id]

\* The index after the first k parts of the walk: each part overwrites the
\* entries earlier parts made under the same key.
RECURSIVE Walked(_, _)
Walked(mess, k) ==
    IF k = 0 THEN [by_loc |-> EmptyMap, by_id |-> EmptyMap, starts |-> {}]
    ELSE LET prev == Walked(mess, k - 1)
             part == mess[k]
             base == part.cbase
         IN  [starts |-> prev.starts \cup {part.start[j] : j \in DOMAIN part.start},
              by_loc |-> IF part.loc # <<>>
                         THEN (urljoin(base, part.loc[1]) :> k) @@ prev.by_loc
                         ELSE prev.by_loc,
              by_id |-> IF part.cid # <<>>
                        THEN (part.cid[1] :> k) @@ (StripBrackets(part.cid[1]) :> k)
                             @@ prev.by_id
                        ELSE prev.by_id]

Mapped(mess) == Walked(mess, Len(mess))

\* ---------------------------------------------------------- root selection
\* `for start in mapper.starts: root = by_id.get(start); break on a hit`:
\* a set is iterated in no particular order, so any resolving start may be
\* the first.
StartRoots(mapper) == {mapper.by_id[s] : s \in mapper.starts \cap DOMAIN mapper.by_id}

Leaves(mess) == {p \in DOMAIN mess : ~mess[p].multipart}

\* A mutant of FirstLeaf: the last non-multipart part of the walk.
LastLeaf(mess) ==
    IF Leaves(mess) = {} THEN {}
    ELSE {CHOOSE p \in Leaves(mess) : \A q \in Leaves(mess) : q <= p}

\* `for part in mess.walk(): if not part.is_multipart(): root = part; break`
FirstLeaf(mess) ==
    IF Leaves(mess) = {} THEN {}
    ELSE {CHOOSE p \in Leaves(mess) : \A q \in Leaves(mess) : p <= q}

\* A mutant of Roots: the first non-multipart part is preferred to the start
\* values.
RootsLeafFirst(mess, mapper) ==
    IF FirstLeaf(mess) # {} THEN FirstLeaf(mess) ELSE StartRoots(mapper)

\* The parts the selection may end with ({} when root stays None).
Roots(mess, mapper) ==
    IF StartRoots(mapper) # {} THEN StartRoots(mapper) ELSE FirstLeaf(mess)

\* ------------------------------------------------------------- the inputs
MappedInline == "MappedInline"

MappedRelative == "MappedRelative"

CidNames == <<"c1", "c2", "c3", "c4">>

RECURSIVE Ascending(_)
Ascending(S) ==
    IF S = {} THEN <<>>
    ELSE LET m == CHOOSE x \in S : \A y \in S : x <= y
         IN  <<m>> \o Ascending(S \ {m})

\* Reference graphs: a container and MaxParts HTML parts <c1>, <c2>, ...; each
\* document refers by cid: to up to MaxRefs of the parts and of one
\* Content-ID no part has.
GraphTargets == [k \in 1..(MaxParts + 1) |-> IF k <= MaxParts THEN CidNames[k] ELSE "missing"]

GraphDocs ==
    {[j \in DOMAIN Ascending(S) |-> CidRefTag(GraphTargets[Ascending(S)[j]])] :
        S \in {T \in SUBSET DOMAIN GraphTargets : Cardinality(T) <= MaxRefs}}

GraphMessages ==
    {<<Container(<<>>, <<>>)>>
        \o [k \in 1..MaxParts |-> HtmlPart(<<Cid(CidNames[k], TRUE)>>, doc[k])] :
        doc \in [1..MaxParts -> GraphDocs]}

\* Headers: up to MaxParts + 1 parts, containers with or without a start
\* parameter and a Content-ID, leaves with or without a Content-ID, in any
\* order a walk can give (only a container is followed by other parts).
HeaderParts ==
    {Container(cid, start) :
        cid \in {<<>>, <<Cid("r", TRUE)>>},
        start \in {<<>>, <<Cid("r", FALSE)>>, <<Cid("r", TRUE)>>}}
    \cup {HtmlPart(cid, <<>>) : cid \in {<<>>, <<Cid("r", FALSE)>>, <<Cid("r", TRUE)>>}}

HeaderMessages ==
    UNION {{m \in [1..k -> HeaderParts] : k = 1 \/ m[1].multipart} :
              k \in 1..(MaxParts + 1)}

\* Types: an HTML root with two tags, the first referring to part A (by cid,
\* by location, with a type hint, through an attribute that is not
\* registered for its tag, or to no part), the second to part B with a type
\* hint; A and B carry payload 1 and 1 or 2 under any declared type.
LeafTypes == {M("text/plain"), M("image/jpeg"), M("text/css")}

TypeTagsA ==
    {CidRefTag("c2"),
     Tag("link", "href", Href("cid", "", "c2"), "text/css"),
     Tag("a", "href", Href("", "", "x"), ""),
     Tag("a", "src", Href("cid", "", "c2"), ""),
     Tag("a", "href", Href("", "", "y"), "")}

TypeTagsB == {Tag("img", "src", Href("cid", "", "c3"), h) : h \in {"", "text/css", "text/html"}}

TypeMessages ==
    {<<Container(<<>>, <<Cid("c1", TRUE)>>),
       Part(FALSE, M("text/html"), HtmlPayload(<<ta, tb>>), <<Cid("c1", TRUE)>>,
            <<URI("http://a/", "index")>>, EmptyURI, <<>>),
       Part(FALSE, cta, BinPayload(1), <<Cid("c2", TRUE)>>, <<URI("http://a/", "x")>>,
            EmptyURI, <<>>),
       Part(FALSE, ctb, BinPayload(pb), <<Cid("c3", TRUE)>>, <<>>, EmptyURI, <<>>)>> :
        ta \in TypeTagsA, tb \in TypeTagsB, cta \in LeafTypes, ctb \in LeafTypes,
        pb \in {1, 2}}

\* Bases: an HTML root with or without a Content-Location and a Content-Base,
\* with or without a <base> tag, referring to "x" relatively or to part A by
\* cid:; part A located at http://a/x; part B located at "x" relative to its
\* own Content-Base, http://b/ or http://a/ (then under the key of part A).
BaseTag == Tag("base", "href", Href("", "http://c/", ""), "")

RelativeTag == Tag("img", "src", Href("", "", "x"), "")

BaseMessages ==
    {<<Container(<<>>, <<>>),
       Part(FALSE, M("text/html"), HtmlPayload(tags), <<Cid("c1", TRUE)>>, loc, cbase, <<>>),
       Part(FALSE, M("image/jpeg"), BinPayload(1), <<Cid("c2", TRUE)>>,
            <<URI("http://a/", "x")>>, EmptyURI, <<>>),
       Part(FALSE, M("image/jpeg"), BinPayload(2), <<Cid("c3", TRUE)>>,
            <<URI("", "x")>>, cbaseB, <<>>)>> :
        tags \in {<<RelativeTag>>, <<BaseTag, RelativeTag>>, <<BaseTag, CidRefTag("c2")>>},
        loc \in {<<>>, <<URI("http://a/", "index")>>},
        cbase \in {EmptyURI, URI("http://b/", "")},
        cbaseB \in {URI("http://b/", ""), URI("http://a/", "")}}

\* Command lines of several files, over a few small messages: a container
\* with no part, an HTML part referring to itself, a text/plain message
\* referring to itself with and without a type hint, an HTML part referring
\* to its container.
SmallMessages ==
    {<<Container(<<>>, <<>>)>>,
     <<Container(<<>>, <<>>), HtmlPart(<<Cid("c1", TRUE)>>, <<CidRefTag("c1")>>)>>,
     <<Part(FALSE, M("text/plain"),
            Payload(0, <<Tag("img", "src", Href("cid", "", "c1"), "text/html"),
                         CidRefTag("c1")>>, M("text/plain")),
            <<Cid("c1", TRUE)>>, <<>>, EmptyURI, <<>>)>>,
     <<Container(<<Cid("c0", TRUE)>>, <<>>),
       HtmlPart(<<Cid("c1", TRUE)>>, <<CidRefTag("c0")>>)>>}

FileLines == UNION {[1..k -> SmallMessages] : k \in 1..MaxFiles}

\* An input: sys.argv (the messages of the files named), the optional
\* modules installed, and `con` (MappedRelative when "file" is in argv[0]).
Input(argv, installed, con) == [argv |-> argv, installed |-> installed, con |-> con]

Inputs ==
    {Input(<<m>>, NoCaps, c) :
        m \in GraphMessages \cup HeaderMessages \cup BaseMessages,
        c \in {MappedInline, MappedRelative}}
    \cup {Input(<<m>>, i, c) :
        m \in TypeMessages, i \in {NoCaps, AllCaps}, c \in {MappedInline, MappedRelative}}
    \cup {Input(a, NoCaps, c) : a \in FileLines, c \in {MappedInline, MappedRelative}}

\* ------------------------------------------------------------------ state
VARIABLES
    con,            \* the class chosen at line 372-375
    installed,      \* which optional modules were importable
    argv,           \* the messages of the files of sys.argv[1:]
    n,              \* how many of them the loop of line 376 has taken up
    pc,             \* "main": between two files; "render": inside mapper.render;
                    \* "done"; or the exception that ended the process
    mapper,         \* the Mapped object of the current file: by_loc, by_id, starts
    root,           \* the walk position of the root chosen (0: None)
    stack,          \* the active calls of Mapped.render, outermost first
    blobs,          \* the blob=... files of the directory: path -> <<>> (empty) or <<bytes>>
    outputs,        \* the .conv.html files written: file number -> bytes
    stderr,         \* the files reported as "Can't find root node"
    common_types,   \* the global extension table, with what find_extension cached
    ret,            \* the value the last finished render call returned (<<>>: none yet)
    blob_log,       \* path -> how often DataDirectory.render_data rendered and wrote it
    call,           \* the last application of a pure function (second specification)
    guess_log,      \* lower-cased MIME type -> how often mt.guess_extension was called for it
    runs            \* concurrent processes inside DataDirectory.render_data (third
                    \* specification): each one's position, part, renderings and writes

vars == <<con, installed, argv, n, pc, mapper, root, stack, blobs, outputs, stderr,
          common_types, ret, blob_log, call, guess_log, runs>>

\* The message of the file being handled.
mess == argv[n]

\* ---------------------------------------------------------- Mapped.render
\* content_type == "text/html"
IsHtml(helper) == helper.content_type = M("text/html")

HasBaseTag(tags) == \E j \in DOMAIN tags : tags[j].name = "base"

\* part.get('Content-Location', "").strip()
LocOf(part) == IF part.loc = <<>> THEN EmptyURI ELSE part.loc[1]

\* Line 271 raises: urljoin(loc, <Tag>) with a non-empty loc mixes str and
\* non-str arguments.
RenderRaises(m, helper) ==
    IsHtml(helper) /\ HasBaseTag(helper.payload.tags) /\ LocOf(m[helper.part]) # EmptyURI

\* The attribute values of a document as parsed: the original hrefs.
Parsed(tags) == [j \in DOMAIN tags |-> <<"orig", tags[j].href>>]

\* The frame of a call render(helper, seen) up to the loop of line 274.
\* `base_is_tag`: with a <base> tag and an empty loc, base is the Tag object.
\* `lookups` and `embeds` count the by_id/by_loc lookups and the render_data
\* calls this call has made.
Frame(m, helper, seen) ==
    [helper |-> helper,
     seen |-> seen,
     i |-> 1,
     vals |-> IF IsHtml(helper) THEN Parsed(helper.payload.tags) ELSE <<>>,
     base |-> urljoin(LocOf(m[helper.part]), m[helper.part].cbase),
     base_is_tag |-> IsHtml(helper) /\ HasBaseTag(helper.payload.tags),
     lookups |-> 0,
     embeds |-> 0]

\* The bytes of a payload, of its UTF-8 encoding, and of a serialized document.
PayloadBytes(payload) == [body |-> <<"bytes", payload.id, payload.tags>>, len |-> payload.len]

Utf8Bytes(payload) == [body |-> <<"utf8", payload.id, payload.tags>>, len |-> payload.len]

DocBytes(payload, vals) == [body |-> <<"doc", payload.id, payload.tags, vals>>, len |-> payload.len]

\* A mutant of Returned: every result is labelled with a charset.
ReturnedCharset(frame) ==
    IF IsHtml(frame.helper)
    THEN <<DocBytes(frame.helper.payload, frame.vals), WithCharset(M("text/html"))>>
    ELSE <<Utf8Bytes(frame.helper.payload), WithCharset(frame.helper.content_type)>>

\* What render returns once its loop is over (lines 291-294).
Returned(frame) ==
    IF IsHtml(frame.helper)
    THEN <<DocBytes(frame.helper.payload, frame.vals), WithCharset(M("text/html"))>>
    ELSE IF frame.helper.payload.text
    THEN <<Utf8Bytes(frame.helper.payload), WithCharset(frame.helper.content_type)>>
    ELSE <<PayloadBytes(frame.helper.payload), frame.helper.content_type>>

top == stack[Len(stack)]

\* The frame is in its loop, at a tag.
AtTag == pc = "render" /\ IsHtml(top.helper) /\ top.i <= Len(top.helper.payload.tags)

\* The frame is at its return statement.
AtReturn == pc = "render" /\ ~(IsHtml(top.helper) /\ top.i <= Len(top.helper.payload.tags))

tag == top.helper.payload.tags[top.i]

\* tag.get(attr, "").strip() for the attribute of the tag, when it is one of
\* refs[tag.name]; the empty href otherwise (`continue`).
HrefOf(t) == IF t.attr \in RefsOf(t.name) THEN t.href ELSE EmptyHref

\* Lines 283-286: the part object found, 0 for None.
Lookup(mp, base, href) ==
    IF href.scheme = "cid"
    THEN IF Cid(href.name, FALSE) \in DOMAIN mp.by_id
         THEN mp.by_id[Cid(href.name, FALSE)] ELSE 0
    ELSE IF urljoin(base, URI(href.dir, href.name)) \in DOMAIN mp.by_loc
         THEN mp.by_loc[urljoin(base, URI(href.dir, href.name))] ELSE 0

\* Line 286 raises: urljoin(<Tag>, href).
LookupRaises(frame, href) == href.scheme # "cid" /\ frame.base_is_tag

mref == Lookup(mapper, top.base, HrefOf(tag))

\* PartHelper(mref, mime_type), mime_type being tag.get('type', "").strip().lower()
RefHelper == PartHelper(installed, common_types, mess, mref, M(tag.type))

\* common_types after PartHelper(part, recommended).
Cached(part, recommended) ==
    find_extension(common_types, ResolveType(installed, part, recommended)).table

\* guess_log after PartHelper(part, recommended).
Guesses(part, recommended) ==
    Logged(guess_log, common_types, ResolveType(installed, part, recommended))

\* A mutant of BlobPath: the file is named after the part, not its digest.
BlobPathByPart(helper) == <<"blob=", helper.part, helper.extension>>

\* "blob={0}{1}".format(helper.digest, helper.extension)
BlobPath(helper) == <<"blob=", helper.digest, helper.extension>>

\* "data:{0};base64,{1}".format(content_type, b64encode(binary))
DataURI(content_type, binary) == <<"data", content_type, <<"base64", binary>>>>

\* The top frame moves on to its next tag, with `val` as the tag's attribute.
Advance(val, looked, embedded) ==
    stack' = [stack EXCEPT ![Len(stack)] =
                 [@ EXCEPT !.vals[top.i] = val, !.i = @ + 1,
                           !.lookups = @ + looked, !.embeds = @ + embedded]]

\* self.render(helper, seen) is called from the top frame's render_data.
Push(helper, seen) ==
    IF Len(stack) >= MaxDepth
    THEN pc' = "RecursionError" /\ UNCHANGED stack
    ELSE IF RenderRaises(mess, helper)
    THEN pc' = "TypeError" /\ UNCHANGED stack
    ELSE /\ pc' = pc
         /\ stack' = Append([stack EXCEPT ![Len(stack)] =
                                [@ EXCEPT !.lookups = @ + 1, !.embeds = @ + 1]],
                            Frame(mess, helper, seen))

\* ------------------------------------------------------------- __main__
\* The state when the loop of line 376 is about to start, for the input inp.
Start(inp) ==
    /\ con = inp.con
    /\ installed = inp.installed
    /\ argv = inp.argv
    /\ n = 0
    /\ pc = "main"
    /\ mapper = Mapped(<<>>)
    /\ root = 0
    /\ stack = <<>>
    /\ blobs = EmptyMap
    /\ outputs = EmptyMap
    /\ stderr = {}
    /\ common_types = CommonTypes
    /\ ret = <<>>
    /\ blob_log = EmptyMap
    /\ call = <<>>
    /\ guess_log = EmptyMap
    /\ runs = <<>>

Init == \E inp \in Inputs : Start(inp)

\* Lines 376-393 when root stays None: the message is printed and the loop
\* continues with the next path.
RootNotFound ==
    /\ pc = "main" /\ n < Len(argv)
    /\ Roots(argv[n + 1], Mapped(argv[n + 1])) = {}
    /\ n' = n + 1
    /\ mapper' = Mapped(argv[n + 1])
    /\ root' = 0
    /\ stderr' = stderr \cup {n + 1}
    /\ UNCHANGED <<con, installed, argv, pc, stack, blobs, outputs, common_types, ret,
                   blob_log, call, guess_log, runs>>

\* Lines 376-394 when a root is found: mapper.render(PartHelper(root, 'text/html'))
\* is entered (or PartHelper raises).
BeginRender ==
    /\ pc = "main" /\ n < Len(argv)
    /\ \E r \in Roots(argv[n + 1], Mapped(argv[n + 1])) :
        LET m == argv[n + 1]
            helper == PartHelper(installed, common_types, m, r, M("text/html"))
        IN  /\ n' = n + 1
            /\ mapper' = Mapped(m)
            /\ root' = r
            /\ common_types' = Cached(m[r], M("text/html"))
            /\ guess_log' = Guesses(m[r], M("text/html"))
            /\ IF PartHelperRaises(m[r]) \/ RenderRaises(m, helper)
               THEN pc' = "TypeError" /\ UNCHANGED stack
               ELSE pc' = "render" /\ stack' = <<Frame(m, helper, {})>>
    /\ UNCHANGED <<con, installed, argv, blobs, outputs, stderr, ret, blob_log, call, runs>>

\* One turn of the loop of line 274 that ends at a `continue` or with mref None.
SkipTag ==
    /\ AtTag
    /\ HrefOf(tag) = EmptyHref
       \/ (~LookupRaises(top, HrefOf(tag)) /\ mref = 0)
    /\ Advance(top.vals[top.i], IF HrefOf(tag) = EmptyHref THEN 0 ELSE 1, 0)
    /\ UNCHANGED <<con, installed, argv, n, pc, mapper, root, blobs, outputs, stderr,
                   common_types, ret, blob_log, call, guess_log, runs>>

\* One turn that ends with an exception: urljoin on a Tag object, or
\* PartHelper on a multipart container.
RaiseInTag ==
    /\ AtTag
    /\ HrefOf(tag) # EmptyHref
    /\ LookupRaises(top, HrefOf(tag))
       \/ (mref # 0 /\ PartHelperRaises(mess[mref]))
    /\ pc' = "TypeError"
    /\ common_types' = IF LookupRaises(top, HrefOf(tag)) THEN common_types
                       ELSE Cached(mess[mref], M(tag.type))
    /\ guess_log' = IF LookupRaises(top, HrefOf(tag)) THEN guess_log
                    ELSE Guesses(mess[mref], M(tag.type))
    /\ UNCHANGED <<con, installed, argv, n, mapper, root, stack, blobs, outputs, stderr,
                   ret, blob_log, call, runs>>

\* The turn reaches line 288 with a part whose PartHelper can be built.
AtRef ==
    /\ AtTag
    /\ HrefOf(tag) # EmptyHref
    /\ ~LookupRaises(top, HrefOf(tag))
    /\ mref # 0
    /\ ~PartHelperRaises(mess[mref])

\* seen | { helper.digest }
InlineSeen(seen, digest) == seen \cup {digest}

\* A mutant of InlineCycle: the None is assigned to the attribute
\* (no `if href is not None`).
InlineCycleAssignsNone ==
    /\ AtRef /\ con = MappedInline
    /\ RefHelper.digest \in top.seen
    /\ Advance(<<"None">>, 1, 1)
    /\ common_types' = Cached(mess[mref], M(tag.type))
    /\ guess_log' = Guesses(mess[mref], M(tag.type))
    /\ UNCHANGED <<con, installed, argv, n, pc, mapper, root, blobs, outputs, stderr, ret,
                   blob_log, call, runs>>

\* InlineData.render_data returns None (line 201-202): the attribute is left.
InlineCycle ==
    /\ AtRef /\ con = MappedInline
    /\ RefHelper.digest \in top.seen
    /\ Advance(top.vals[top.i], 1, 1)
    /\ common_types' = Cached(mess[mref], M(tag.type))
    /\ guess_log' = Guesses(mess[mref], M(tag.type))
    /\ UNCHANGED <<con, installed, argv, n, pc, mapper, root, blobs, outputs, stderr, ret,
                   blob_log, call, runs>>

\* InlineData.render_data calls self.render (line 203).
InlineEmbed ==
    /\ AtRef /\ con = MappedInline
    /\ RefHelper.digest \notin top.seen
    /\ Push(RefHelper, InlineSeen(top.seen, RefHelper.digest))
    /\ common_types' = Cached(mess[mref], M(tag.type))
    /\ guess_log' = Guesses(mess[mref], M(tag.type))
    /\ UNCHANGED <<con, installed, argv, n, mapper, root, blobs, outputs, stderr, ret,
                   blob_log, call, runs>>

\* A mutant of Exists: the file is never found.
NeverExists(files, path) == FALSE

\* op.exists(path)
Exists(files, path) == path \in DOMAIN files

Count(path) == IF path \in DOMAIN blob_log THEN blob_log[path] ELSE [renders |-> 0, writes |-> 0]

\* DataDirectory.render_data finds the file (line 222) and returns the path.
DirectoryReuse ==
    /\ AtRef /\ con = MappedRelative
    /\ Exists(blobs, BlobPath(RefHelper))
    /\ Advance(<<"path", BlobPath(RefHelper)>>, 1, 1)
    /\ common_types' = Cached(mess[mref], M(tag.type))
    /\ guess_log' = Guesses(mess[mref], M(tag.type))
    /\ UNCHANGED <<con, installed, argv, n, pc, mapper, root, blobs, outputs, stderr, ret,
                   blob_log, call, runs>>

\* A mutant of DirectoryCreate: the file is not touched before the rendering.
DirectoryCreateNoTouch ==
    /\ AtRef /\ con = MappedRelative
    /\ ~Exists(blobs, BlobPath(RefHelper))
    /\ blob_log' = (BlobPath(RefHelper) :>
                       [Count(BlobPath(RefHelper)) EXCEPT !.renders = @ + 1]) @@ blob_log
    /\ Push(RefHelper, top.seen)
    /\ common_types' = Cached(mess[mref], M(tag.type))
    /\ guess_log' = Guesses(mess[mref], M(tag.type))
    /\ UNCHANGED <<con, installed, argv, n, mapper, root, blobs, outputs, stderr, ret, call, runs>>

\* DataDirectory.render_data touches the file and calls self.render
\* (lines 223-225).
DirectoryCreate ==
    /\ AtRef /\ con = MappedRelative
    /\ ~Exists(blobs, BlobPath(RefHelper))
    /\ blobs' = IF BlobPath(RefHelper) \in DOMAIN blobs THEN blobs
                ELSE (BlobPath(RefHelper) :> <<>>) @@ blobs
    /\ blob_log' = (BlobPath(RefHelper) :>
                       [Count(BlobPath(RefHelper)) EXCEPT !.renders = @ + 1]) @@ blob_log
    /\ Push(RefHelper, top.seen)
    /\ common_types' = Cached(mess[mref], M(tag.type))
    /\ guess_log' = Guesses(mess[mref], M(tag.type))
    /\ UNCHANGED <<con, installed, argv, n, mapper, root, outputs, stderr, ret, call, runs>>

\* The value a finished render call hands back, as `ret` keeps it.
Ret(frame) ==
    [helper |-> frame.helper, binary |-> Returned(frame)[1],
     content_type |-> Returned(frame)[2], lookups |-> frame.lookups,
     embeds |-> frame.embeds]

\* The render call of line 394 returns: the .conv.html file is written.
ReturnToMain ==
    /\ AtReturn /\ Len(stack) = 1
    /\ ret' = Ret(top)
    /\ outputs' = (n :> Returned(top)[1]) @@ outputs
    /\ stack' = <<>>
    /\ pc' = "main"
    /\ UNCHANGED <<con, installed, argv, n, mapper, root, blobs, stderr, common_types,
                   blob_log, call, guess_log, runs>>

\* A mutant of Resumed: the digest of the part just rendered stays in the
\* caller's seen set (a set extended in place).
ResumedSeenKept(href) ==
    LET caller == stack[Len(stack) - 1]
    IN  Append(SubSeq(stack, 1, Len(stack) - 2),
               [caller EXCEPT !.vals[caller.i] = href, !.i = @ + 1,
                              !.seen = @ \cup {top.helper.digest}])

\* The caller's frame, with the attribute of its current tag set to `href`.
Resumed(href) ==
    LET caller == stack[Len(stack) - 1]
    IN  Append(SubSeq(stack, 1, Len(stack) - 2),
               [caller EXCEPT !.vals[caller.i] = href, !.i = @ + 1])

\* A render call made by InlineData.render_data returns: lines 204-207, then
\* lines 289-290 of the caller.
ReturnInline ==
    /\ AtReturn /\ Len(stack) > 1 /\ con = MappedInline
    /\ \E output \in Outputs(installed, Returned(top)[1], Returned(top)[2]) :
        /\ output.kind # "raise"
        /\ LET c == compress_data(installed, Returned(top)[1], Returned(top)[2], output)
           IN  stack' = Resumed(DataURI(c[2], c[1]))
    /\ ret' = Ret(top)
    /\ UNCHANGED <<con, installed, argv, n, pc, mapper, root, blobs, outputs, stderr,
                   common_types, blob_log, call, guess_log, runs>>

\* A mutant of ReturnDirectory: the final bytes are not written.
ReturnDirectoryNoWrite ==
    /\ AtReturn /\ Len(stack) > 1 /\ con = MappedRelative
    /\ \E output \in Outputs(installed, Returned(top)[1], Returned(top)[2]) :
        output.kind # "raise"
    /\ stack' = Resumed(<<"path", BlobPath(top.helper)>>)
    /\ ret' = Ret(top)
    /\ UNCHANGED <<con, installed, argv, n, pc, mapper, root, blobs, outputs, stderr,
                   common_types, blob_log, call, guess_log, runs>>

\* A render call made by DataDirectory.render_data returns: lines 226-229,
\* then lines 289-290 of the caller.
ReturnDirectory ==
    /\ AtReturn /\ Len(stack) > 1 /\ con = MappedRelative
    /\ \E output \in Outputs(installed, Returned(top)[1], Returned(top)[2]) :
        /\ output.kind # "raise"
        /\ LET c == compress_data(installed, Returned(top)[1], Returned(top)[2], output)
           IN  blobs' = (BlobPath(top.helper) :> <<c[1]>>) @@ blobs
    /\ blob_log' = (BlobPath(top.helper) :>
                       [Count(BlobPath(top.helper)) EXCEPT !.writes = @ + 1]) @@ blob_log
    /\ stack' = Resumed(<<"path", BlobPath(top.helper)>>)
    /\ ret' = Ret(top)
    /\ UNCHANGED <<con, installed, argv, n, pc, mapper, root, outputs, stderr,
                   common_types, call, guess_log, runs>>

\* The compressor raises inside compress_data (lines 143-147): the exception
\* is printed and propagates.
TranscodeFailure ==
    /\ AtReturn /\ Len(stack) > 1
    /\ \E output \in Outputs(installed, Returned(top)[1], Returned(top)[2]) :
        output.kind = "raise"
    /\ ret' = Ret(top)
    /\ pc' = "TranscodeError"
    /\ UNCHANGED <<con, installed, argv, n, mapper, root, stack, blobs, outputs, stderr,
                   common_types, blob_log, call, guess_log, runs>>

\* The loop of line 376 is over.
Finish ==
    /\ pc = "main" /\ n = Len(argv)
    /\ pc' = "done"
    /\ UNCHANGED <<con, installed, argv, n, mapper, root, stack, blobs, outputs, stderr,
                   common_types, ret, blob_log, call, guess_log, runs>>

Next ==
    \/ RootNotFound
    \/ BeginRender
    \/ SkipTag
    \/ RaiseInTag
    \/ InlineCycle
    \/ InlineEmbed
    \/ DirectoryReuse
    \/ DirectoryCreate
    \/ ReturnToMain
    \/ ReturnInline
    \/ ReturnDirectory
    \/ TranscodeFailure
    \/ Finish

Spec == Init /\ [][Next]_vars

\* The runs of the script called as mht_unpack_files (con is MappedRelative
\* throughout, so the steps of InlineData are left out).  The interpreter runs
\* its one thread for as long as it has a next step.
\* They are checked on the reference graphs among the parts themselves (the
\* cyclic ones included), on the typed messages with every transcoder
\* installed, and on the command lines of several files.
ClosedGraphMessages ==
    {m \in GraphMessages :
        \A p \in DOMAIN m : \A j \in DOMAIN m[p].payload.tags :
            m[p].payload.tags[j].href.name # "missing"}

DirectoryInputs ==
    {Input(<<m>>, NoCaps, MappedRelative) : m \in ClosedGraphMessages}
    \cup {Input(<<m>>, AllCaps, MappedRelative) : m \in TypeMessages}
    \cup {Input(a, NoCaps, MappedRelative) : a \in FileLines}

InitDirectory == \E inp \in DirectoryInputs : Start(inp)

NextDirectory ==
    \/ RootNotFound
    \/ BeginRender
    \/ SkipTag
    \/ RaiseInTag
    \/ DirectoryReuse
    \/ DirectoryCreate
    \/ ReturnToMain
    \/ ReturnDirectory
    \/ TranscodeFailure
    \/ Finish

DirectorySpec == InitDirectory /\ [][NextDirectory]_vars /\ WF_vars(NextDirectory)

\* ------------------------------------------------- the pure functions
\* A second specification applies the pure functions to inputs drawn from
\* bounded sets; `call` keeps the last application.
Buffers == {[body |-> <<"bytes", b>>, len |-> l] : b \in 1..2, l \in 0..MaxLen}

CompressMimes ==
    {M(""), M("text/html"), WithCharset(M("text/html")), M("text/css"),
     WithCharset(M("text/css")), M("text/javascript"), M("image/jpeg"), M("image/png"),
     M("application/x-unknown-custom")}

InitFn ==
    /\ con = MappedInline
    /\ installed \in [CapNames -> BOOLEAN]
    /\ argv = <<>>
    /\ n = 0
    /\ pc = "main"
    /\ mapper = Mapped(<<>>)
    /\ root = 0
    /\ stack = <<>>
    /\ blobs = EmptyMap
    /\ outputs = EmptyMap
    /\ stderr = {}
    /\ common_types = CommonTypes
    /\ ret = <<>>
    /\ blob_log = EmptyMap
    /\ call = <<>>
    /\ guess_log = EmptyMap
    /\ runs = <<>>

\* compress_data(data, mime_type) returns.
CallCompress ==
    /\ \E data \in Buffers, mime \in CompressMimes :
        \E output \in Outputs(installed, data, mime) :
            /\ output.kind # "raise"
            /\ call' = [fn |-> "compress_data", data |-> data, mime |-> mime,
                        output |-> output,
                        result |-> compress_data(installed, data, mime, output)]
    /\ UNCHANGED <<con, installed, argv, n, pc, mapper, root, stack, blobs, outputs,
                   stderr, common_types, ret, blob_log, guess_log, runs>>

\* The MIME types find_extension is called with: in the static table (in
\* either case), known to the OS table, unknown to it, and empty.
ExtensionMimes ==
    {M("text/css"), M("TEXT/CSS"), M("image/png"), M("Image/PNG"),
     M("application/x-unknown-custom"), M("")}

\* find_extension(mime_type) returns.
CallFindExtension ==
    /\ \E mime \in ExtensionMimes :
        LET r == find_extension(common_types, mime)
        IN  /\ common_types' = r.table
            /\ guess_log' = Logged(guess_log, common_types, mime)
            /\ call' = [fn |-> "find_extension", mime |-> mime, ext |-> r.ext,
                        guessed |-> r.guessed, before |-> common_types]
    /\ UNCHANGED <<con, installed, argv, n, pc, mapper, root, stack, blobs, outputs,
                   stderr, ret, blob_log, runs>>

\* A message of three parts that are not text/html: two with the same bytes
\* under different types, two of the same type with different bytes.
RaceMessage ==
    <<Container(<<>>, <<>>),
      Part(FALSE, M("image/jpeg"), BinPayload(1), <<Cid("c1", TRUE)>>, <<>>, EmptyURI, <<>>),
      Part(FALSE, M("text/css"), BinPayload(1), <<Cid("c2", TRUE)>>, <<>>, EmptyURI, <<>>),
      Part(FALSE, M("image/jpeg"), BinPayload(2), <<Cid("c3", TRUE)>>, <<>>, EmptyURI, <<>>)>>

\* PartHelper(*args): __init__(self, part, recommended_mime_type) has no
\* default for recommended_mime_type, so a call with the part alone raises
\* TypeError before the body runs.
PartHelperCall(table, m, args) ==
    IF Len(args) # 2 \/ PartHelperRaises(m[args[1]])
    THEN [raised |-> "TypeError", helper |-> <<>>]
    ELSE [raised |-> "", helper |-> <<PartHelper(installed, table, m, args[1], args[2])>>]

\* Mapped.render(arg) up to its return, for a part that is not text/html:
\* arg is a PartHelper, or a raw part, which line 265 hands to
\* PartHelper(helper).
render(table, m, arg) ==
    LET built == IF arg.raw THEN PartHelperCall(table, m, <<arg.part>>)
                 ELSE [raised |-> "", helper |-> <<arg.helper>>]
    IN  IF built.raised # "" THEN [raised |-> built.raised, result |-> <<>>]
        ELSE [raised |-> "", result |-> Returned(Frame(m, built.helper[1], {}))]

\* The parts render is called for: those of RaceMessage, which are not
\* text/html and hold no reference.
RenderArgs ==
    {[raw |-> TRUE, part |-> p, helper |-> <<>>] : p \in Leaves(RaceMessage)}
    \cup {[raw |-> FALSE, part |-> p,
            helper |-> PartHelper(installed, common_types, RaceMessage, p, M(""))] :
              p \in Leaves(RaceMessage)}

\* mapper.render(arg) returns or raises.
CallRender ==
    /\ \E arg \in RenderArgs :
        call' = [fn |-> "render", arg |-> arg,
                 out |-> render(common_types, RaceMessage, arg)]
    /\ UNCHANGED <<con, installed, argv, n, pc, mapper, root, stack, blobs, outputs,
                   stderr, common_types, ret, blob_log, guess_log, runs>>

NextFn == CallCompress \/ CallFindExtension \/ CallRender

SpecFn == InitFn /\ [][NextFn]_vars

\* ------------------------------------------------- concurrent runs
\* A third specification: MaxRuns processes of mht_unpack_files in one
\* directory, each inside one call of DataDirectory.render_data for a part of
\* RaceMessage that is not text/html (its rendering makes no nested call).
\* The processes share nothing but the files; a step is one system call or
\* the computation between two of them.
\* The descriptor process r was called with.
RaceHelper(r) == PartHelper(installed, CommonTypes, RaceMessage, runs[r].part, M(""))

RacePath(r) == BlobPath(RaceHelper(r))

InitRace ==
    /\ con = MappedRelative
    /\ installed \in {NoCaps, AllCaps}
    /\ argv = <<RaceMessage>>
    /\ n = 0
    /\ pc = "main"
    /\ mapper = Mapped(<<>>)
    /\ root = 0
    /\ stack = <<>>
    /\ blobs = EmptyMap
    /\ outputs = EmptyMap
    /\ stderr = {}
    /\ common_types = CommonTypes
    /\ ret = <<>>
    /\ blob_log = EmptyMap
    /\ call = <<>>
    /\ guess_log = EmptyMap
    /\ runs \in [1..MaxRuns ->
                   {[pc |-> "exists", part |-> p, binary |-> <<>>, renders |-> 0,
                     writes |-> 0] : p \in Leaves(RaceMessage)}]

RaceUnchanged ==
    UNCHANGED <<con, installed, argv, n, pc, mapper, root, stack, outputs, stderr,
                common_types, ret, blob_log, call, guess_log>>

\* Line 222, the file is there: `return path` (line 229).
RaceFound(r) ==
    /\ runs[r].pc = "exists"
    /\ Exists(blobs, RacePath(r))
    /\ runs' = [runs EXCEPT ![r].pc = "returned"]
    /\ UNCHANGED blobs
    /\ RaceUnchanged

\* Line 222, the file is not there.
RaceMissing(r) ==
    /\ runs[r].pc = "exists"
    /\ ~Exists(blobs, RacePath(r))
    /\ runs' = [runs EXCEPT ![r].pc = "touch"]
    /\ UNCHANGED blobs
    /\ RaceUnchanged

\* Lines 223-224: open(path, "ab") creates the file, or leaves one that has
\* been created meanwhile as it is.
RaceTouch(r) ==
    /\ runs[r].pc = "touch"
    /\ blobs' = IF RacePath(r) \in DOMAIN blobs THEN blobs
                ELSE (RacePath(r) :> <<>>) @@ blobs
    /\ runs' = [runs EXCEPT ![r].pc = "render"]
    /\ RaceUnchanged

\* Lines 225-226: self.render and compress_data return.
RaceRender(r) ==
    /\ runs[r].pc = "render"
    /\ LET rendered == Returned(Frame(RaceMessage, RaceHelper(r), {}))
       IN  \E output \in Outputs(installed, rendered[1], rendered[2]) :
               /\ output.kind # "raise"
               /\ runs' = [runs EXCEPT
                      ![r].pc = "write",
                      ![r].renders = @ + 1,
                      ![r].binary =
                          <<compress_data(installed, rendered[1], rendered[2], output)[1]>>]
    /\ UNCHANGED blobs
    /\ RaceUnchanged

\* Line 226: the compressor raises, and the process ends.
RaceRaise(r) ==
    /\ runs[r].pc = "render"
    /\ LET rendered == Returned(Frame(RaceMessage, RaceHelper(r), {}))
       IN  \E output \in Outputs(installed, rendered[1], rendered[2]) :
               output.kind = "raise"
    /\ runs' = [runs EXCEPT ![r].pc = "raised", ![r].renders = @ + 1]
    /\ UNCHANGED blobs
    /\ RaceUnchanged

\* Lines 227-229: the bytes are written and the path is returned.
RaceWrite(r) ==
    /\ runs[r].pc = "write"
    /\ blobs' = (RacePath(r) :> runs[r].binary) @@ blobs
    /\ runs' = [runs EXCEPT ![r].pc = "returned", ![r].writes = @ + 1]
    /\ RaceUnchanged

NextRace ==
    \E r \in 1..MaxRuns :
        \/ RaceFound(r)
        \/ RaceMissing(r)
        \/ RaceTouch(r)
        \/ RaceRender(r)
        \/ RaceRaise(r)
        \/ RaceWrite(r)

RaceSpec == InitRace /\ [][NextRace]_vars

\* ------------------------------------------------------------------ claims
\* C7: compress_data never returns a buffer longer than its input; the
\* transcoded bytes (and their MIME type) are returned only when strictly
\* shorter than the input, otherwise the input bytes and type; and for a MIME
\* type with no registered transcoder the result is exactly (data, mime).
C7_CompressNeverGrows ==
    call # <<>> /\ call.fn = "compress_data" =>
        /\ call.result[1].len <= call.data.len
        /\ call.result # <<call.data, call.mime>> =>
              /\ call.result[1].len < call.data.len
              /\ call.result[1] = call.output.data
              /\ call.result[2] = IF call.output.kind = "tuple" THEN call.output.mime
                                  ELSE call.mime
        /\ (call.output.kind # "none" /\ call.output.data.len < call.data.len) =>
              call.result[1] = call.output.data
        /\ call.mime.type \notin DOMAIN minify => call.result = <<call.data, call.mime>>

\* C7 witness: a registered transcoder returned a buffer of the input's
\* length with another MIME type, and the input came back.
C7_Witness ==
    /\ call # <<>> /\ call.fn = "compress_data"
    /\ call.output.kind = "tuple"
    /\ call.output.data.len = call.data.len
    /\ call.output.mime # call.mime
    /\ call.result = <<call.data, call.mime>>

\* The tags of the document a frame renders.
TagsOf(frame) == frame.helper.payload.tags

\* The part the j-th tag of a frame's document refers to through the index
\* (0: none, or the attribute is not one of refs[tag.name], or it is empty).
TargetOf(frame, j) ==
    IF HrefOf(TagsOf(frame)[j]) = EmptyHref THEN 0
    ELSE Lookup(mapper, frame.base, HrefOf(TagsOf(frame)[j]))

\* C1: in Inline mode the rendering of a root HTML part with a cid: reference
\* to itself, once written out, still has the original value in that
\* attribute (it is not replaced by a data: URI).
C1_SelfReferenceKept ==
    (con = MappedInline /\ n \in DOMAIN outputs /\ ret # <<>> /\ ret.helper.part = root
        /\ IsHtml(ret.helper) /\ outputs[n] = ret.binary) =>
        \A j \in DOMAIN ret.helper.payload.tags :
            LET href == HrefOf(ret.helper.payload.tags[j])
            IN  (href.scheme = "cid" /\ Cid(href.name, FALSE) \in DOMAIN mapper.by_id
                    /\ mapper.by_id[Cid(href.name, FALSE)] = root) =>
                    outputs[n].body[4][j] = <<"orig", ret.helper.payload.tags[j].href>>

\* The distinct payload digests of the message.
Digests(m) == {Digest(m[p].payload) : p \in Leaves(m)}

\* C2: in Inline mode the chain of nested render calls is never longer than
\* the number of distinct payload digests of the message.
C2_DepthWithinDigests ==
    (con = MappedInline /\ pc = "render") => Len(stack) <= Cardinality(Digests(mess))

\* The tags of a frame whose attribute render_data has replaced by a path.
PathTags(frame) ==
    {j \in DOMAIN frame.vals : j < frame.i /\ frame.vals[j][1] = "path"}

\* C3 as stated: in Directory mode two references of a document to parts
\* with identical payload bytes get the same blob path, whatever the declared
\* types and the type hints.
C3_SamePayloadSamePath ==
    con = MappedRelative =>
        \A d \in DOMAIN stack : \A j, k \in PathTags(stack[d]) :
            mess[TargetOf(stack[d], j)].payload = mess[TargetOf(stack[d], k)].payload
                => stack[d].vals[j] = stack[d].vals[k]

\* The extension PartHelper derives for the part the j-th tag refers to.
ExtensionOf(frame, j) ==
    PartHelper(installed, common_types, mess, TargetOf(frame, j),
               M(TagsOf(frame)[j].type)).extension

\* C3 as amended: in Directory mode two references of a document to parts
\* with identical payload bytes whose resolved content types give the same
\* extension get the same blob path.
C3_SamePayloadAndExtensionSamePath ==
    con = MappedRelative =>
        \A d \in DOMAIN stack : \A j, k \in PathTags(stack[d]) :
            (/\ mess[TargetOf(stack[d], j)].payload = mess[TargetOf(stack[d], k)].payload
             /\ ExtensionOf(stack[d], j) = ExtensionOf(stack[d], k))
                => stack[d].vals[j] = stack[d].vals[k]

\* C3 witness: one document got the same path for two different parts.
C3_Witness ==
    /\ con = MappedRelative
    /\ \E d \in DOMAIN stack : \E j, k \in PathTags(stack[d]) :
        /\ TargetOf(stack[d], j) # TargetOf(stack[d], k)
        /\ stack[d].vals[j] = stack[d].vals[k]

\* render_data returns a URI or path, not None, for the j-th tag of a frame.
NonNull(frame, j) ==
    con = MappedRelative \/ Digest(mess[TargetOf(frame, j)].payload) \notin frame.seen

\* C4: an attribute of a document is overwritten if and only if the loop has
\* handled its tag, its URI resolves to an indexed part and render_data
\* returned a URI or path; otherwise it has the value it had in the input;
\* an attribute that is not registered for its tag is never changed.
C4_OverwrittenIffResolved ==
    \A d \in DOMAIN stack : \A j \in DOMAIN stack[d].vals :
        LET f == stack[d]
            t == TagsOf(f)[j]
        IN  /\ f.vals[j] # <<"orig", t.href>> <=>
                  (j < f.i /\ TargetOf(f, j) # 0 /\ NonNull(f, j))
            /\ t.attr \notin RefsOf(t.name) => f.vals[j] = <<"orig", t.href>>

\* C4 witness: a document whose loop is over has an attribute overwritten and
\* an attribute left as it was because render_data returned None.
C4_Witness ==
    /\ AtReturn
    /\ \E j, k \in DOMAIN top.vals :
        /\ top.vals[j][1] = "data"
        /\ top.vals[k][1] = "orig" /\ TargetOf(top, k) # 0

\* C4 witness, second case: an attribute not registered for its tag, whose
\* URI is the Content-ID of a part, is left as it was.
C4_WitnessUnregistered ==
    /\ AtReturn
    /\ \E k \in DOMAIN top.vals :
        /\ TagsOf(top)[k].attr \notin RefsOf(TagsOf(top)[k].name)
        /\ Cid(TagsOf(top)[k].href.name, FALSE) \in DOMAIN mapper.by_id
        /\ top.vals[k] = <<"orig", TagsOf(top)[k].href>>

\* The start parameters the parts of a message declare.
StartsOf(m) == {m[p].start[1] : p \in {q \in DOMAIN m : m[q].start # <<>>}}

\* A start value matches a part's Content-ID, with or without the
\* Content-ID's angle brackets.
Matches(s, part) == part.cid # <<>> /\ s \in {part.cid[1], StripBrackets(part.cid[1])}

\* The root of file n has been selected.
Selected == n >= 1

\* C5 as stated: when a start parameter matches the Content-ID of a part, the
\* selected root is that part.
C5_StartPartIsRoot ==
    Selected =>
        \A p \in DOMAIN mess : \A s \in StartsOf(mess) : Matches(s, mess[p]) => root = p

\* C5 as amended: when a start parameter matches the Content-ID of a part, the
\* selected root is the last part of the walk whose Content-ID matches one of
\* the declared start values, whatever non-multipart parts come before it.
C5_StartRootIsLastMatch ==
    (Selected /\ \E p \in DOMAIN mess : \E s \in StartsOf(mess) : Matches(s, mess[p])) =>
        /\ root \in DOMAIN mess
        /\ \E s \in StartsOf(mess) :
            /\ Matches(s, mess[root])
            /\ \A q \in DOMAIN mess : q > root => ~Matches(s, mess[q])

\* C5 witness: the root was selected through a start value written without
\* the brackets its Content-ID has, behind a non-multipart part.
C5_Witness ==
    /\ Selected /\ root \in DOMAIN mess
    /\ mess[root].cid = <<Cid("r", TRUE)>>
    /\ StartsOf(mess) = {Cid("r", FALSE)}
    /\ \E q \in Leaves(mess) : q < root

\* C6: when no start value resolves, the root is the first part of the walk
\* that is not a multipart container; the file is reported (root not found)
\* exactly when there is no such part; a reported file has nothing rendered
\* and no output written; and the loop goes on to the remaining files.
C6_FallbackRoot ==
    /\ (Selected /\ ~\E p \in DOMAIN mess : \E s \in StartsOf(mess) : Matches(s, mess[p])) =>
          /\ Leaves(mess) # {} =>
                (root \in Leaves(mess) /\ \A q \in Leaves(mess) : root <= q)
          /\ Leaves(mess) = {} <=> n \in stderr
    /\ (Selected /\ n \in stderr) => (root = 0 /\ stack = <<>> /\ pc \in {"main", "done"})
    /\ \A k \in stderr : k \notin DOMAIN outputs
    /\ pc = "done" => \A k \in DOMAIN argv : k \in stderr \/ k \in DOMAIN outputs

\* C6 witness: the first file was reported, the second rendered and written.
C6_Witness ==
    /\ pc = "done"
    /\ 1 \in stderr
    /\ 2 \in DOMAIN outputs

\* C8: in Directory mode no blob path is rendered or written more than once
\* in a run, however many references point to it.
C8_BlobRenderedOnce ==
    con = MappedRelative =>
        \A path \in DOMAIN blob_log :
            blob_log[path].renders <= 1 /\ blob_log[path].writes <= 1

\* C8 witness: the file exists with its final bytes after one rendering and
\* one write, and two references of one document were given its path.
C8_Witness ==
    /\ con = MappedRelative
    /\ \E d \in DOMAIN stack : \E j, k \in PathTags(stack[d]) :
        /\ j # k
        /\ stack[d].vals[j] = stack[d].vals[k]
        /\ blob_log[stack[d].vals[j][2]] = [renders |-> 1, writes |-> 1]

\* The parts the document of part p refers to through the index of m.
RefsFrom(m, p) ==
    {Lookup(Mapped(m), urljoin(LocOf(m[p]), m[p].cbase), HrefOf(m[p].payload.tags[j])) :
        j \in {i \in DOMAIN m[p].payload.tags : HrefOf(m[p].payload.tags[i]) # EmptyHref}}
    \ {0}

RECURSIVE ReachFrom(_, _)
ReachFrom(m, S) ==
    LET T == S \cup UNION {RefsFrom(m, p) : p \in S}
    IN  IF T = S THEN S ELSE ReachFrom(m, T)

\* A part that can be reached from r refers, directly or not, to itself.
Cyclic(m, r) == \E q \in ReachFrom(m, {r}) : q \in ReachFrom(m, RefsFrom(m, q))

\* C9 as stated, for the graphs it speaks of: in Directory mode the rendering
\* of a message whose root reaches a part that refers to itself never
\* completes (its output is never written).
C9_DirectoryCycleNeverCompletes ==
    (con = MappedRelative /\ Selected /\ root \in Leaves(mess) /\ Cyclic(mess, root)) =>
        n \notin DOMAIN outputs

\* The process is over: the loop finished, or an exception other than
\* RecursionError ended it.
Ended == pc \in {"done", "TypeError", "TranscodeError"}

\* The render calls made by render_data on the current call chain are for
\* pairwise different blob paths.
ChainPathsDistinct ==
    \A d, e \in 2..Len(stack) :
        d # e => BlobPath(stack[d].helper) # BlobPath(stack[e].helper)

\* C9 as amended: in Directory mode the placeholder file breaks the cycles:
\* on every reference graph, the cyclic ones included, no blob path is
\* rendered inside its own rendering, and the run comes to its end, never by
\* exhausting the recursion limit.
C9_DirectoryCompletes == [](ChainPathsDistinct /\ pc # "RecursionError") /\ <>Ended

\* C9 witness: in Directory mode a reference to a part whose rendering is
\* still going on higher up the call chain was given the path of the
\* (still empty) placeholder, without a nested rendering.
C9_Witness ==
    /\ con = MappedRelative
    /\ \E d \in DOMAIN stack : \E e \in 2..d : \E j \in PathTags(stack[d]) :
        /\ stack[d].vals[j] = <<"path", BlobPath(stack[e].helper)>>
        /\ blobs[BlobPath(stack[e].helper)] = <<>>

\* C10: a render call for a part whose content type is not text/html returns
\* the payload bytes unchanged and the descriptor's content type (with
\* ;charset=utf8 appended only for a str payload), having made no lookup in
\* the index and no render_data call.
C10_LeafReturnedUnchanged ==
    (ret # <<>> /\ ret.helper.content_type # M("text/html")) =>
        /\ ret.binary.body = <<IF ret.helper.payload.text THEN "utf8" ELSE "bytes",
                               ret.helper.payload.id, ret.helper.payload.tags>>
        /\ ret.binary.len = ret.helper.payload.len
        /\ ret.content_type = IF ret.helper.payload.text
                              THEN WithCharset(ret.helper.content_type)
                              ELSE ret.helper.content_type
        /\ ret.lookups = 0 /\ ret.embeds = 0

\* C10 witness: a part declared text/plain whose bytes hold a reference
\* (they would be rewritten as HTML) was returned as it is.
C10_Witness ==
    /\ ret # <<>>
    /\ ret.helper.content_type = M("text/plain")
    /\ ret.helper.payload.tags # <<>>
    /\ ret.binary = PayloadBytes(ret.helper.payload)

\* C11: a MIME type of the static table never reaches the OS guesser; for any
\* other type the guesser is called at most once per lower-cased type; what it
\* answered (the empty string too) is in the cache from then on, no entry of
\* the cache ever changes, and every call returns the cached entry.
C11_GuessedOnceAndCached ==
    /\ \A k \in DOMAIN guess_log :
          /\ guess_log[k] <= 1
          /\ k \notin DOMAIN CommonTypes
          /\ k \in DOMAIN common_types /\ common_types[k] = GuessExtension(k)
    /\ \A k \in DOMAIN CommonTypes :
          k \in DOMAIN common_types /\ common_types[k] = CommonTypes[k]
    /\ (call # <<>> /\ call.fn = "find_extension") =>
          /\ \A k \in DOMAIN call.before :
                k \in DOMAIN common_types /\ common_types[k] = call.before[k]
          /\ call.ext = common_types[Lower(call.mime)]
          /\ call.guessed <=> Lower(call.mime) \notin DOMAIN call.before
          /\ Lower(call.mime) \in DOMAIN CommonTypes => ~call.guessed

\* C11 witness: a call for a type the OS table does not know was answered
\* with the empty string from the cache, the guesser having been asked once
\* before, under another spelling of the type or the same.
C11_Witness ==
    /\ call # <<>> /\ call.fn = "find_extension"
    /\ Lower(call.mime) \notin DOMAIN CommonTypes
    /\ ~call.guessed
    /\ call.ext = ""
    /\ guess_log[Lower(call.mime)] = 1

\* The digests render_data added on the way to the d-th call of the chain:
\* those of the parts of the calls 2..d (call 1 is made by __main__).
AncestorDigests(d) == {stack[e].helper.digest : e \in 2..d}

\* C12: in Inline mode the seen set of every active render call is the set
\* of digests added by the render_data calls enclosing it, whatever nested
\* calls have returned to it meanwhile; and a reference it has handled was
\* left unresolved exactly when the digest of the part referred to is in
\* that set, whichever references were rendered before it.
C12_OnlyAncestorsDecide ==
    con = MappedInline =>
        \A d \in DOMAIN stack :
            /\ stack[d].seen = AncestorDigests(d)
            /\ \A j \in DOMAIN stack[d].vals :
                  (j < stack[d].i /\ TargetOf(stack[d], j) # 0) =>
                      (stack[d].vals[j] = <<"orig", TagsOf(stack[d])[j].href>>
                          <=> Digest(mess[TargetOf(stack[d], j)].payload)
                                  \in AncestorDigests(d))

\* C12 witness: two references of one document to parts with the same digest
\* were both embedded, the second after the rendering of the first returned.
C12_Witness ==
    /\ con = MappedInline
    /\ \E d \in DOMAIN stack : \E j, k \in DOMAIN stack[d].vals :
        /\ j < k /\ k < stack[d].i
        /\ TargetOf(stack[d], j) # 0 /\ TargetOf(stack[d], k) # 0
        /\ Digest(mess[TargetOf(stack[d], j)].payload)
              = Digest(mess[TargetOf(stack[d], k)].payload)
        /\ stack[d].vals[j][1] = "data" /\ stack[d].vals[k][1] = "data"

\* The digests of the parts on the call chain down to the d-th call, the
\* entry part included.
PathDigests(d) == {stack[e].helper.digest : e \in 1..d}

\* C13: in Inline mode the seen set of every active render call is the set
\* of digests of the parts on the call chain from the entry part down to the
\* part being rendered, and no two calls of the chain render the same digest.
C13_SeenIsResolutionPath ==
    con = MappedInline =>
        /\ \A d \in DOMAIN stack : stack[d].seen = PathDigests(d)
        /\ \A d, e \in DOMAIN stack :
              d # e => stack[d].helper.digest # stack[e].helper.digest

\* C14: when two concurrent runs handle the same blob path, at most one of
\* them renders the part and writes the file, and a run that has returned
\* the path while no run is still at work on it returned the path of a file
\* holding its final bytes.
C14_PlaceholderReserves ==
    \A r, s \in DOMAIN runs :
        (r # s /\ RacePath(r) = RacePath(s)) =>
            /\ runs[r].renders + runs[s].renders <= 1
            /\ runs[r].writes + runs[s].writes <= 1
            /\ (runs[r].pc = "returned"
                    /\ \A t \in DOMAIN runs : runs[t].pc \in {"returned", "raised"})
                   => blobs[RacePath(r)] # <<>>

\* The keys part p of message m produces in by_id and in by_loc.
IdKeys(m, p) ==
    IF m[p].cid = <<>> THEN {} ELSE {m[p].cid[1], StripBrackets(m[p].cid[1])}

LocKeys(m, p) ==
    IF m[p].loc = <<>> THEN {} ELSE {urljoin(m[p].cbase, m[p].loc[1])}

\* The last part of the walk among S.
LastOf(S) == CHOOSE p \in S : \A q \in S : q <= p

\* C15: once the index of a message is built, by_id and by_loc hold exactly
\* the keys the parts produce, each mapped to the last part of the walk
\* that produces it, and no step of the rendering changes the index.
C15_LastWriteWins ==
    Selected =>
        /\ DOMAIN mapper.by_id = UNION {IdKeys(mess, p) : p \in DOMAIN mess}
        /\ DOMAIN mapper.by_loc = UNION {LocKeys(mess, p) : p \in DOMAIN mess}
        /\ \A k \in DOMAIN mapper.by_id :
              mapper.by_id[k] = LastOf({p \in DOMAIN mess : k \in IdKeys(mess, p)})
        /\ \A k \in DOMAIN mapper.by_loc :
              mapper.by_loc[k] = LastOf({p \in DOMAIN mess : k \in LocKeys(mess, p)})

\* C15 witness: a render call has returned, and the index still maps a
\* location two parts produce (one of them through its Content-Base) to the
\* later one.
C15_Witness ==
    /\ Selected /\ ret # <<>>
    /\ \E k \in DOMAIN mapper.by_loc : \E p, q \in DOMAIN mess :
        /\ p < q
        /\ k \in LocKeys(mess, p) /\ k \in LocKeys(mess, q)
        /\ mess[q].cbase # EmptyURI
        /\ mapper.by_loc[k] = q

\* The base URI the precedence rule gives for the document of a part: the
\* href of a <base> tag joined against the Content-Location, else the
\* Content-Location, else the Content-Base, else the empty string.
BaseHref(tags) ==
    LET t == tags[CHOOSE j \in DOMAIN tags : tags[j].name = "base"]
    IN  URI(t.href.dir, t.href.name)

PrecedenceBase(part) ==
    IF HasBaseTag(part.payload.tags)
    THEN urljoin(LocOf(part), BaseHref(part.payload.tags))
    ELSE IF LocOf(part) # EmptyURI THEN LocOf(part)
    ELSE part.cbase

\* C16: the rendering of an HTML part resolves its references against the
\* base the precedence rule gives, and building that base raises nothing.
C16_BasePrecedence ==
    /\ \A d \in DOMAIN stack :
          IsHtml(stack[d].helper) =>
              /\ ~stack[d].base_is_tag
              /\ stack[d].base = PrecedenceBase(mess[stack[d].helper.part])
    /\ (Selected /\ root # 0 /\ ~mess[root].multipart /\ pc = "TypeError") =>
          stack # <<>>

\* The recommended type the d-th call of the chain was built with:
\* 'text/html' for the entry call, the type attribute of the caller's
\* current tag for the others.
RecommendedOf(d) ==
    IF d = 1 THEN M("text/html")
    ELSE M(TagsOf(stack[d - 1])[stack[d - 1].i].type)

\* The part of the d-th call of the chain.
PartOf(d) == mess[stack[d].helper.part]

\* C17 as stated: the content type of a descriptor is the declared type if
\* that is not suspect, else the sniffed type if a sniffer is installed and
\* its answer is not suspect, else the recommended type if there is one,
\* else the empty string.
C17_TypeElseEmpty ==
    \A d \in DOMAIN stack :
        stack[d].helper.content_type =
            IF ~suspect_mime_type(PartOf(d).ctype) THEN PartOf(d).ctype
            ELSE IF installed["magic_obj"] /\ ~suspect_mime_type(PartOf(d).payload.sniff)
            THEN PartOf(d).payload.sniff
            ELSE IF ~IsEmptyMime(RecommendedOf(d)) THEN RecommendedOf(d)
            ELSE M("")

\* C17 as amended: ... else the recommended type if there is one, else the
\* suspect type itself: the sniffed one if a sniffer is installed, the
\* declared one if not.
C17_TypeElseSuspect ==
    \A d \in DOMAIN stack :
        stack[d].helper.content_type =
            IF ~suspect_mime_type(PartOf(d).ctype) THEN PartOf(d).ctype
            ELSE IF installed["magic_obj"] /\ ~suspect_mime_type(PartOf(d).payload.sniff)
            THEN PartOf(d).payload.sniff
            ELSE IF ~IsEmptyMime(RecommendedOf(d)) THEN RecommendedOf(d)
            ELSE IF installed["magic_obj"] THEN PartOf(d).payload.sniff
            ELSE PartOf(d).ctype

\* C17 witness: a part declared text/plain, sniffed as text/plain and
\* referred to without a type attribute is rendered as text/plain.
C17_Witness ==
    \E d \in DOMAIN stack :
        /\ d > 1
        /\ PartOf(d).ctype = M("text/plain")
        /\ installed["magic_obj"] /\ PartOf(d).payload.sniff = M("text/plain")
        /\ IsEmptyMime(RecommendedOf(d))
        /\ stack[d].helper.content_type = M("text/plain")

\* The payload (id and tags) a buffer was rendered from, the transcoding
\* undone.
RECURSIVE SourceOf(_)
SourceOf(body) ==
    IF body[1] = "transcoded" THEN SourceOf(body[2]) ELSE <<body[2], body[3]>>

\* The paths render_data returned into a buffer: none for the bytes of a
\* part that is not text/html.
RECURSIVE PathsIn(_)
PathsIn(body) ==
    IF body[1] = "transcoded" THEN PathsIn(body[2])
    ELSE IF body[1] = "doc"
    THEN {body[4][j][2] : j \in {i \in DOMAIN body[4] : body[4][i][1] = "path"}}
    ELSE {}

\* Every path render_data returned in the run: those in the documents
\* written as output files and as blob files.
ReturnedPaths ==
    UNION ({PathsIn(outputs[k].body) : k \in DOMAIN outputs}
           \cup {PathsIn(blobs[p][1].body) : p \in {q \in DOMAIN blobs : blobs[q] # <<>>}})

\* C18: when a Directory run that began without blob files has ended without
\* error, every path render_data returned names a file, no file is an empty
\* placeholder, and every file holds the (transcoded) rendering of a part
\* with the digest of its name.
C18_NoPlaceholderRemains ==
    (con = MappedRelative /\ pc = "done") =>
        /\ ReturnedPaths \subseteq DOMAIN blobs
        /\ \A p \in DOMAIN blobs :
              /\ blobs[p] # <<>>
              /\ p[2] = <<"b64", <<"sha256", SourceOf(blobs[p][1].body)[1],
                                    SourceOf(blobs[p][1].body)[2]>>>>

\* C18 witness: the run has ended, and a blob file holds a document with a
\* reference to its own path, returned while the file was a placeholder.
C18_Witness ==
    /\ con = MappedRelative /\ pc = "done"
    /\ \E p \in DOMAIN blobs : blobs[p] # <<>> /\ p \in PathsIn(blobs[p][1].body)

\* C19: render called with a raw part builds the part's descriptor with no
\* recommended type and returns what rendering that descriptor returns; it
\* does not end in an error.
C19_RawPartRendered ==
    (call # <<>> /\ call.fn = "render" /\ call.arg.raw) =>
        /\ call.out.raised = ""
        /\ call.out.result =
              Returned(Frame(RaceMessage,
                             PartHelper(installed, common_types, RaceMessage,
                                        call.arg.part, M("")), {}))

====
